---- MODULE Spec2Model ----
(***************************************************************************)
(* A model of fasttrips/Trip.py: the constructor Trip.__init__ (schedule   *)
(* assembly), the lookups get_scheduled_departure and number_of_stops on   *)
(* the assembled schedule, and the static methods calculate_dwell_times    *)
(* and calculate_headways.                                                 *)
(*                                                                         *)
(* Conventions.                                                            *)
(*  - A pandas DataFrame is a sequence of records (its rows, in order).    *)
(*  - A time string 'HH:MM:SS' is the triple <<HH, MM, SS>> of the numbers *)
(*    its three fields spell; a date string 'YYYYMMDD' is the triple       *)
(*    <<YYYY, MM, DD>>.                                                    *)
(*  - A datetime is a record; its date is either a calendar date           *)
(*    [year, month, day] (service periods) or, for stop times, a number of *)
(*    days after the constructor's argument `today` (day 0 is `today`).    *)
(*  - A minute-of-day float is kept in sixtieths of a minute, so that      *)
(*    second/60.0 stays an integer: 60*h + m + s/60.0 is 3600*h + 60*m + s.*)
(*  - An exception leaves pc at the statement that raised and sets error.  *)
(*    AssertionError of a required-column assert is "SchemaError",         *)
(*    ValueError of set_index(verify_integrity=True) is "IntegrityError",  *)
(*    ValueError of strptime is "TimeParseError".                          *)
(***************************************************************************)
EXTENDS Integers, Sequences, FiniteSets, TLC

VARIABLES
    pc,               \* the statement of Trip.__init__ to run next
    error,            \* "none", or the exception that ended Trip.__init__
    gtfs_schedule,    \* argument: [trips, services] of the transitfeed schedule
    files,            \* the three csv files under input_dir
    trips_df,         \* self.trips_df
    vehicles_df,      \* self.vehicles_df
    service_df,       \* self.service_df
    stop_time_dicts,  \* local stop_time_dicts
    stop_times_df,    \* self.stop_times_df
    joins,            \* history: the pandas.merge calls that have returned
    query,            \* the last lookup on the assembled schedule and its outcome
    dw_df,            \* calculate_dwell_times: its argument trips_df
    dw_status,        \* "idle" | "ready" | "done"
    hw_df,            \* calculate_headways: its argument trips_df
    hw_ret,           \* calculate_headways: the table returned
    hw_status         \* "idle" | "ready" | "returned" | "AssertionError"

vars == <<pc, error, gtfs_schedule, files, trips_df, vehicles_df, service_df,
          stop_time_dicts, stop_times_df, joins, query,
          dw_df, dw_status, hw_df, hw_ret, hw_status>>

asm_vars == <<pc, error, gtfs_schedule, files, trips_df, vehicles_df, service_df,
              stop_time_dicts, stop_times_df, joins>>

dw_vars == <<dw_df, dw_status>>

hw_vars == <<hw_df, hw_ret, hw_status>>

(***************************************************************************)
(* Bounds of the model.                                                    *)
(***************************************************************************)
MaxTrips == 2

MaxFtRows == 2

MaxStopTimes == 2

MaxServices == 2

\* calculate_dwell_times: rows of the table, and boardings or alightings of a row
MaxDwellRows == 2

MaxCount == 3

\* calculate_headways: rows of the table
MaxRows == 3

(***************************************************************************)
(* Column names and constants of class Trip.                               *)
(***************************************************************************)
TRIPS_COLUMN_ID == "trip_id"

TRIPS_COLUMN_VEHICLE_NAME == "vehicle_name"

VEHICLES_COLUMN_VEHICLE_NAME == "vehicle_name"

STOPTIMES_COLUMN_TRIP_ID == "trip_id"

STOPTIMES_COLUMN_STOP_ID == "stop_id"

STOPTIMES_COLUMN_DEPARTURE_TIME == "departure_time"

STOPTIMES_COLUMN_HEADSIGN == "stop_headsign"

DEFAULT_HEADWAY == 60

\* pandas' missing value
NaN == "NaN"

(***************************************************************************)
(* Helpers on sequences.                                                   *)
(***************************************************************************)
SeqsOf(S, lo, hi) == UNION {[1..n -> S] : n \in lo..hi}

RECURSIVE Concat(_)
Concat(ss) == IF ss = <<>> THEN <<>> ELSE Head(ss) \o Concat(Tail(ss))

\* set_index without verify_integrity: no key is ever reported
HasDuplicates_Unverified(keys) == FALSE

\* DataFrame.set_index(keys, verify_integrity=True) raises on a repeated key
HasDuplicates(keys) == \E i, j \in 1..Len(keys) : i < j /\ keys[i] = keys[j]

(***************************************************************************)
(* Trip.__init__, lines 129-173: the transitfeed trips and their stop      *)
(* times become two lists of dicts.                                        *)
(***************************************************************************)
TripDicts(trips) == [i \in 1..Len(trips) |-> [trip_id |-> trips[i].trip_id]]

StopTimeDict(gtfs_trip, gtfs_stop_time) ==
    [trip_id        |-> gtfs_trip.trip_id,
     arrival_time   |-> gtfs_stop_time.arrival_time,
     departure_time |-> gtfs_stop_time.departure_time,
     stop_id        |-> gtfs_stop_time.stop_id,
     stop_sequence  |-> gtfs_stop_time.stop_sequence]

StopTimeDicts(trips) ==
    Concat([i \in 1..Len(trips) |->
              [k \in 1..Len(trips[i].stop_times) |->
                 StopTimeDict(trips[i], trips[i].stop_times[k])]])

(***************************************************************************)
(* The asserts on the columns of a file read by pandas.read_csv.           *)
(***************************************************************************)
\* the asserts left out
ColumnsPresent_Unchecked(cols, required) == TRUE

ColumnsPresent(cols, required) == required \subseteq cols

(***************************************************************************)
(* pandas.merge(left=self.trips_df, right=trips_ft_df, how='left',         *)
(* on='trip_id'): every left row, in order, once per matching right row,   *)
(* and once with missing values when no right row matches.                 *)
(***************************************************************************)
\* how='inner': a left row without a match is dropped
MergeTripRow_Inner(l, right) ==
    LET m == SelectSeq(right, LAMBDA r : r.trip_id = l.trip_id)
    IN  [k \in 1..Len(m) |->
           [trip_id |-> l.trip_id, vehicle_name |-> m[k].vehicle_name]]

MergeTripRow(l, right) ==
    LET m == SelectSeq(right, LAMBDA r : r.trip_id = l.trip_id)
    IN  IF m = <<>>
        THEN <<[trip_id |-> l.trip_id, vehicle_name |-> NaN]>>
        ELSE [k \in 1..Len(m) |->
                [trip_id |-> l.trip_id, vehicle_name |-> m[k].vehicle_name]]

MergeTrips(left, right) ==
    Concat([i \in 1..Len(left) |-> MergeTripRow(left[i], right)])

TripIndex(df) == [i \in 1..Len(df) |-> df[i].trip_id]

StopTimeIndex(df) == [i \in 1..Len(df) |-> <<df[i].trip_id, df[i].stop_sequence>>]

(***************************************************************************)
(* Service periods, lines 214-224.  strptime(x, '%Y%M%d') reads the four   *)
(* digits of the year, then two digits as %M, the MINUTE, then the day of  *)
(* the month; the month keeps strptime's default, 1.                       *)
(***************************************************************************)
StrptimeYMdValid(x) == x[1] \in 1..9999 /\ x[2] \in 0..59 /\ x[3] \in 1..31

StrptimeYMd(x) ==
    [year |-> x[1], month |-> 1, day |-> x[3],
     hour |-> 0, minute |-> x[2], second |-> 0, microsecond |-> 0]

DateOf(dt) == [year |-> dt.year, month |-> dt.month, day |-> dt.day]

CombineDate(date, t) ==
    [year |-> date.year, month |-> date.month, day |-> date.day,
     hour |-> t.hour, minute |-> t.minute, second |-> t.second,
     microsecond |-> t.microsecond]

ServiceStartDate(x) ==
    CombineDate(DateOf(StrptimeYMd(x)),
                [hour |-> 0, minute |-> 0, second |-> 0, microsecond |-> 0])

ServiceEndDate(x) ==
    CombineDate(DateOf(StrptimeYMd(x)),
                [hour |-> 23, minute |-> 59, second |-> 59, microsecond |-> 999999])

ServiceRow(s) ==
    [start_date_str |-> s.start_date,
     end_date_str   |-> s.end_date,
     start_date     |-> ServiceStartDate(s.start_date),
     end_date       |-> ServiceEndDate(s.end_date)]

ServiceDatesValid(services) ==
    \A i \in 1..Len(services) :
        StrptimeYMdValid(services[i].start_date) /\ StrptimeYMdValid(services[i].end_date)

(***************************************************************************)
(* Stop times, lines 251-269.  strptime(x, '%H:%M:%S') accepts hours 0..23 *)
(* only; datetime.combine(today, t) keeps today's date.                    *)
(***************************************************************************)
StrptimeHMSValid(x) == x[1] \in 0..23 /\ x[2] \in 0..59 /\ x[3] \in 0..61

StrptimeHMS(x) == [hour |-> x[1], minute |-> x[2], second |-> x[3]]

CombineToday(t) == [day |-> 0, hour |-> t.hour, minute |-> t.minute, second |-> t.second]

\* 60*x.time().hour + x.time().minute + x.time().second/60.0, in sixtieths
TimeMin(x) == 3600 * x.hour + 60 * x.minute + x.second

StopTimeRow(r) ==
    LET arrival   == CombineToday(StrptimeHMS(r.arrival_time))
        departure == CombineToday(StrptimeHMS(r.departure_time))
    IN  [trip_id            |-> r.trip_id,
         stop_id            |-> r.stop_id,
         stop_sequence      |-> r.stop_sequence,
         arrival_time_str   |-> r.arrival_time,
         departure_time_str |-> r.departure_time,
         arrival_time       |-> arrival,
         departure_time     |-> departure,
         arrival_time_min   |-> TimeMin(arrival),
         departure_time_min |-> TimeMin(departure)]

StopTimesValid(df) ==
    \A i \in 1..Len(df) :
        StrptimeHMSValid(df[i].arrival_time) /\ StrptimeHMSValid(df[i].departure_time)

(***************************************************************************)
(* The statements of Trip.__init__, in program order.                      *)
(***************************************************************************)
Statements ==
    << "build_dicts", "check_trips_ft", "merge_trips", "index_trips",
       "check_vehicles", "build_service", "build_stop_times",
       "check_stop_times_ft", "merge_stop_times", "derive_times",
       "index_stop_times", "done" >>

StatementNo(s) == CHOOSE i \in 1..Len(Statements) : Statements[i] = s

After(s) == Statements[StatementNo(s) + 1]

Running(s) == pc = s /\ error = "none"

\* the statement ends normally
Pass(s) == pc' = After(s) /\ error' = error

\* the statement raises: the constructor ends there
Raise(e) == pc' = pc /\ error' = e

BuildDicts ==
    /\ Running("build_dicts")
    /\ trips_df' = TripDicts(gtfs_schedule.trips)
    /\ stop_time_dicts' = StopTimeDicts(gtfs_schedule.trips)
    /\ Pass("build_dicts")
    /\ UNCHANGED <<gtfs_schedule, files, vehicles_df, service_df, stop_times_df, joins,
                   query, dw_vars, hw_vars>>

CheckTripsFt ==
    /\ Running("check_trips_ft")
    /\ IF ColumnsPresent(files.trips_ft.cols,
                         {TRIPS_COLUMN_ID, TRIPS_COLUMN_VEHICLE_NAME})
       THEN Pass("check_trips_ft")
       ELSE Raise("SchemaError")
    /\ UNCHANGED <<gtfs_schedule, files, trips_df, vehicles_df, service_df,
                   stop_time_dicts, stop_times_df, joins,
                   query, dw_vars, hw_vars>>

MergeTripsFt ==
    /\ Running("merge_trips")
    /\ trips_df' = MergeTrips(trips_df, files.trips_ft.rows)
    /\ joins' = joins \cup {"trips"}
    /\ Pass("merge_trips")
    /\ UNCHANGED <<gtfs_schedule, files, vehicles_df, service_df,
                   stop_time_dicts, stop_times_df,
                   query, dw_vars, hw_vars>>

IndexTrips ==
    /\ Running("index_trips")
    /\ IF HasDuplicates(TripIndex(trips_df))
       THEN Raise("IntegrityError")
       ELSE Pass("index_trips")
    /\ UNCHANGED <<gtfs_schedule, files, trips_df, vehicles_df, service_df,
                   stop_time_dicts, stop_times_df, joins,
                   query, dw_vars, hw_vars>>

CheckVehicles ==
    /\ Running("check_vehicles")
    /\ vehicles_df' = files.vehicles_ft
    /\ IF ColumnsPresent(files.vehicles_ft.cols, {VEHICLES_COLUMN_VEHICLE_NAME})
       THEN Pass("check_vehicles")
       ELSE Raise("SchemaError")
    /\ UNCHANGED <<gtfs_schedule, files, trips_df, service_df,
                   stop_time_dicts, stop_times_df, joins,
                   query, dw_vars, hw_vars>>

BuildService ==
    /\ Running("build_service")
    /\ IF ServiceDatesValid(gtfs_schedule.services)
       THEN /\ service_df' = [i \in 1..Len(gtfs_schedule.services) |->
                                ServiceRow(gtfs_schedule.services[i])]
            /\ Pass("build_service")
       ELSE /\ service_df' = service_df
            /\ Raise("TimeParseError")
    /\ UNCHANGED <<gtfs_schedule, files, trips_df, vehicles_df,
                   stop_time_dicts, stop_times_df, joins,
                   query, dw_vars, hw_vars>>

BuildStopTimes ==
    /\ Running("build_stop_times")
    /\ stop_times_df' = stop_time_dicts
    /\ Pass("build_stop_times")
    /\ UNCHANGED <<gtfs_schedule, files, trips_df, vehicles_df, service_df,
                   stop_time_dicts, joins,
                   query, dw_vars, hw_vars>>

CheckStopTimesFt ==
    /\ Running("check_stop_times_ft")
    /\ IF ColumnsPresent(files.stop_times_ft.cols,
                         {STOPTIMES_COLUMN_TRIP_ID, STOPTIMES_COLUMN_STOP_ID})
       THEN Pass("check_stop_times_ft")
       ELSE Raise("SchemaError")
    /\ UNCHANGED <<gtfs_schedule, files, trips_df, vehicles_df, service_df,
                   stop_time_dicts, stop_times_df, joins,
                   query, dw_vars, hw_vars>>

\* line 243 names `stop_times_df`, which is no variable of the constructor:
\* evaluating the argument raises NameError before pandas.merge is called
MergeStopTimesFt ==
    /\ Running("merge_stop_times")
    /\ IF Cardinality(files.stop_times_ft.cols) > 2
       THEN Raise("NameError")
       ELSE Pass("merge_stop_times")
    /\ UNCHANGED <<gtfs_schedule, files, trips_df, vehicles_df, service_df,
                   stop_time_dicts, stop_times_df, joins,
                   query, dw_vars, hw_vars>>

DeriveTimes ==
    /\ Running("derive_times")
    /\ IF StopTimesValid(stop_times_df)
       THEN /\ stop_times_df' = [i \in 1..Len(stop_times_df) |->
                                   StopTimeRow(stop_times_df[i])]
            /\ Pass("derive_times")
       ELSE /\ stop_times_df' = stop_times_df
            /\ Raise("TimeParseError")
    /\ UNCHANGED <<gtfs_schedule, files, trips_df, vehicles_df, service_df,
                   stop_time_dicts, joins,
                   query, dw_vars, hw_vars>>

IndexStopTimes ==
    /\ Running("index_stop_times")
    /\ IF HasDuplicates(StopTimeIndex(stop_times_df))
       THEN Raise("IntegrityError")
       ELSE Pass("index_stop_times")
    /\ UNCHANGED <<gtfs_schedule, files, trips_df, vehicles_df, service_df,
                   stop_time_dicts, stop_times_df, joins,
                   query, dw_vars, hw_vars>>

(***************************************************************************)
(* The inputs of Trip.__init__.  Four families, each varying one part of   *)
(* the input over a baseline that assembles without error:                 *)
(*   TableInputs     the trips, and the columns and rows of the csv files; *)
(*   StopTimeInputs  the stops and sequence numbers of the stop times;     *)
(*   TimeInputs      the arrival and departure time strings;               *)
(*   ServiceInputs   the service periods' date strings.                    *)
(* Every trip has at least one stop time and the schedule at least one     *)
(* trip and one service period.                                            *)
(***************************************************************************)
TripIds == {"T1", "T2"}

StopIds == {"S1", "S2"}

VehicleNames == {"V1"}

StopSequences == {1, 2}

TimeStrings == {<<7, 23, 5>>, <<23, 59, 59>>, <<24, 0, 0>>, <<25, 7, 0>>}

DateStrings == {<<2015, 1, 31>>, <<2015, 2, 1>>, <<2015, 3, 16>>, <<2015, 4, 16>>}

\* 'YYYYMMDD' strings compare as their numbers do
DateStrLeq(x, y) ==
    10000 * x[1] + 100 * x[2] + x[3] <= 10000 * y[1] + 100 * y[2] + y[3]

BaseStopTimes ==
    << [stop_id |-> "S1", stop_sequence |-> 1,
        arrival_time |-> <<7, 23, 5>>, departure_time |-> <<7, 24, 0>>] >>

BaseTrips == << [trip_id |-> "T1", stop_times |-> BaseStopTimes] >>

BaseServices == << [start_date |-> <<2015, 3, 16>>, end_date |-> <<2015, 4, 16>>] >>

BaseTripsFt ==
    [cols |-> {TRIPS_COLUMN_ID, TRIPS_COLUMN_VEHICLE_NAME},
     rows |-> << [trip_id |-> "T1", vehicle_name |-> "V1"] >>]

BaseVehiclesFt == [cols |-> {VEHICLES_COLUMN_VEHICLE_NAME, "vehicle_description"}]

BaseStopTimesFt == [cols |-> {STOPTIMES_COLUMN_TRIP_ID, STOPTIMES_COLUMN_STOP_ID}]

TripsFtFiles ==
    [cols : {{TRIPS_COLUMN_ID, TRIPS_COLUMN_VEHICLE_NAME},
             {TRIPS_COLUMN_ID},
             {TRIPS_COLUMN_VEHICLE_NAME}},
     rows : SeqsOf([trip_id : TripIds, vehicle_name : VehicleNames], 0, MaxFtRows)]

VehiclesFtFiles ==
    [cols : {{VEHICLES_COLUMN_VEHICLE_NAME, "vehicle_description"},
             {"vehicle_description"}}]

StopTimesFtFiles ==
    [cols : {{STOPTIMES_COLUMN_TRIP_ID, STOPTIMES_COLUMN_STOP_ID},
             {STOPTIMES_COLUMN_TRIP_ID, STOPTIMES_COLUMN_STOP_ID,
              STOPTIMES_COLUMN_HEADSIGN},
             {STOPTIMES_COLUMN_TRIP_ID, STOPTIMES_COLUMN_HEADSIGN}}]

TableInputs ==
    [trips         : SeqsOf([trip_id : TripIds, stop_times : {BaseStopTimes}],
                            1, MaxTrips),
     services      : {BaseServices},
     trips_ft      : TripsFtFiles,
     vehicles_ft   : VehiclesFtFiles,
     stop_times_ft : StopTimesFtFiles]

StopLists ==
    SeqsOf([stop_id : StopIds, stop_sequence : StopSequences,
            arrival_time : {<<7, 23, 5>>}, departure_time : {<<7, 24, 0>>}],
           1, MaxStopTimes)

StopTimeInputs ==
    [trips         : [trip_id : {"T1"}, stop_times : StopLists]
                        \X [trip_id : {"T2"}, stop_times : StopLists]
                     \cup {<<t>> : t \in [trip_id : {"T1"}, stop_times : StopLists]},
     services      : {BaseServices},
     trips_ft      : {BaseTripsFt},
     vehicles_ft   : {BaseVehiclesFt},
     stop_times_ft : StopTimesFtFiles]

TimedStopLists ==
    UNION { { [k \in 1..n |->
                 [stop_id |-> "S1", stop_sequence |-> k,
                  arrival_time |-> f[k][1], departure_time |-> f[k][2]]]
              : f \in [1..n -> TimeStrings \X TimeStrings] }
            : n \in 1..MaxStopTimes }

TimeInputs ==
    [trips         : {<<t>> : t \in [trip_id : {"T1"}, stop_times : TimedStopLists]},
     services      : {BaseServices},
     trips_ft      : {BaseTripsFt},
     vehicles_ft   : {BaseVehiclesFt},
     stop_times_ft : {BaseStopTimesFt}]

ServicePeriods ==
    {s \in [start_date : DateStrings, end_date : DateStrings] :
        DateStrLeq(s.start_date, s.end_date)}

ServiceInputs ==
    [trips         : {BaseTrips},
     services      : SeqsOf(ServicePeriods, 1, MaxServices),
     trips_ft      : {BaseTripsFt},
     vehicles_ft   : {BaseVehiclesFt},
     stop_times_ft : {BaseStopTimesFt}]

\* no lookup has been made
NoQuery == [method |-> "none", args |-> <<>>, outcome |-> "none", value |-> <<>>]

MetricsIdle ==
    /\ dw_df = <<>>
    /\ dw_status = "idle"
    /\ hw_df = <<>>
    /\ hw_ret = <<>>
    /\ hw_status = "idle"

Given(inp) ==
    /\ gtfs_schedule = [trips |-> inp.trips, services |-> inp.services]
    /\ files = [trips_ft |-> inp.trips_ft, vehicles_ft |-> inp.vehicles_ft,
                stop_times_ft |-> inp.stop_times_ft]

Init ==
    /\ \/ \E inp \in TableInputs : Given(inp)
       \/ \E inp \in StopTimeInputs : Given(inp)
       \/ \E inp \in TimeInputs : Given(inp)
       \/ \E inp \in ServiceInputs : Given(inp)
    /\ pc = "build_dicts"
    /\ error = "none"
    /\ trips_df = <<>>
    /\ vehicles_df = <<>>
    /\ service_df = <<>>
    /\ stop_time_dicts = <<>>
    /\ stop_times_df = <<>>
    /\ joins = {}
    /\ query = NoQuery
    /\ MetricsIdle

(***************************************************************************)
(* Lookups on the assembled schedule.  They are methods of the object, so  *)
(* they run once Trip.__init__ has returned.  A lookup that raises leaves  *)
(* the exception's name as its outcome.                                    *)
(***************************************************************************)
\* self.stop_times_df.loc[trip_id]: the rows of the trip, in table order
Loc(df, trip_id) == SelectSeq(df, LAMBDA row : row[STOPTIMES_COLUMN_TRIP_ID] = trip_id)

\* the departure time of the last row at the stop, <<>> when there is none
RECURSIVE IterRows_NoEarlyReturn(_, _)
IterRows_NoEarlyReturn(rows, stop_id) ==
    IF rows = <<>>
    THEN <<>>
    ELSE LET rest == IterRows_NoEarlyReturn(Tail(rows), stop_id)
         IN  IF rest # <<>>
             THEN rest
             ELSE IF Head(rows)[STOPTIMES_COLUMN_STOP_ID] = stop_id
                  THEN <<Head(rows)[STOPTIMES_COLUMN_DEPARTURE_TIME]>>
                  ELSE <<>>

\* the loop over iterrows(): <<the value returned>>, or <<>> when the loop
\* ends without returning
RECURSIVE IterRows(_, _)
IterRows(rows, stop_id) ==
    IF rows = <<>>
    THEN <<>>
    ELSE IF Head(rows)[STOPTIMES_COLUMN_STOP_ID] = stop_id
         THEN <<Head(rows)[STOPTIMES_COLUMN_DEPARTURE_TIME]>>
         ELSE IterRows(Tail(rows), stop_id)

Outcome(method, args, outcome, value) ==
    [method |-> method, args |-> args, outcome |-> outcome, value |-> value]

GetScheduledDeparture ==
    /\ Running("done")
    /\ \E trip_id \in TripIds, stop_id \in StopIds :
          LET rows == Loc(stop_times_df, trip_id)
              args == <<trip_id, stop_id>>
          IN  query' = IF rows = <<>>
                       THEN Outcome("get_scheduled_departure", args, "KeyError", <<>>)
                       ELSE IF IterRows(rows, stop_id) = <<>>
                            THEN Outcome("get_scheduled_departure", args, "Exception", <<>>)
                            ELSE Outcome("get_scheduled_departure", args, "returned",
                                         IterRows(rows, stop_id))
    /\ UNCHANGED <<asm_vars, dw_vars, hw_vars>>

NumberOfStops ==
    /\ Running("done")
    /\ \E trip_id \in TripIds :
          LET rows == Loc(stop_times_df, trip_id)
          IN  query' = IF rows = <<>>
                       THEN Outcome("number_of_stops", <<trip_id>>, "KeyError", <<>>)
                       ELSE Outcome("number_of_stops", <<trip_id>>, "returned", <<Len(rows)>>)
    /\ UNCHANGED <<asm_vars, dw_vars, hw_vars>>

Next ==
    \/ BuildDicts
    \/ CheckTripsFt
    \/ MergeTripsFt
    \/ IndexTrips
    \/ CheckVehicles
    \/ BuildService
    \/ BuildStopTimes
    \/ CheckStopTimesFt
    \/ MergeStopTimesFt
    \/ DeriveTimes
    \/ IndexStopTimes
    \/ GetScheduledDeparture
    \/ NumberOfStops

Spec == Init /\ [][Next]_vars

(***************************************************************************)
(* Properties of Trip.__init__.                                            *)
(***************************************************************************)
\* the statement has run: it ended normally or it raised
Executed(s) == StatementNo(pc) > StatementNo(s) \/ (pc = s /\ error # "none")

\* the statement has run and ended normally
Completed(s) == StatementNo(pc) > StatementNo(s)

Repeats(keys) == Cardinality({keys[i] : i \in 1..Len(keys)}) < Len(keys)

TripKeys(df) == [i \in 1..Len(df) |-> df[i].trip_id]

StopTimeKeys(df) == [i \in 1..Len(df) |-> <<df[i].trip_id, df[i].stop_sequence>>]

Lacks(cols, required) == \E c \in required : c \notin cols

\* the timestamp and the minute of day (in sixtieths) that 'HH:MM:SS' stands
\* for, hours past 23 carried into the date and not wrapped in the minutes
TimestampOf(x) == [day |-> x[1] \div 24, hour |-> x[1] % 24, minute |-> x[2], second |-> x[3]]

MinuteOfDayOf(x) == 3600 * x[1] + 60 * x[2] + x[3]

\* C4: every well-formed time string, hours of 24 and more included, is
\* assembled: the statement deriving the times ends normally, each timestamp is
\* the reference date plus HH hours, MM minutes and SS seconds, and each minute
\* of day is 60*HH + MM + SS/60, not wrapped at 1440.
C4_TimesDerivedForAnyHour ==
    Executed("derive_times") =>
        /\ error = "none"
        /\ Len(stop_times_df) = Len(stop_time_dicts)
        /\ \A i \in 1..Len(stop_times_df) :
              /\ stop_times_df[i].arrival_time
                    = TimestampOf(stop_time_dicts[i].arrival_time)
              /\ stop_times_df[i].departure_time
                    = TimestampOf(stop_time_dicts[i].departure_time)
              /\ stop_times_df[i].arrival_time_min
                    = MinuteOfDayOf(stop_time_dicts[i].arrival_time)
              /\ stop_times_df[i].departure_time_min
                    = MinuteOfDayOf(stop_time_dicts[i].departure_time)

\* C5: a joined trip table with a repeated trip identifier, and a stop-time
\* table with a repeated (trip identifier, stop sequence) pair, end the
\* constructor with an integrity error at the statement that indexes the table,
\* so that no schedule with a repeated key in its input is assembled; when the
\* constructor completes, the keys of both tables are pairwise distinct.
C5_DuplicateKeysRejected ==
    /\ (Executed("index_trips") /\ Repeats(TripKeys(trips_df)))
          => (pc = "index_trips" /\ error = "IntegrityError")
    /\ (Executed("index_stop_times") /\ Repeats(StopTimeKeys(stop_times_df)))
          => (pc = "index_stop_times" /\ error = "IntegrityError")
    /\ Repeats(TripKeys(gtfs_schedule.trips)) => pc # "done"
    /\ (Completed("build_dicts") /\ Repeats(StopTimeKeys(stop_time_dicts)))
          => pc # "done"
    /\ pc = "done" =>
          /\ error = "none"
          /\ ~Repeats(TripKeys(trips_df))
          /\ ~Repeats(StopTimeKeys(stop_times_df))

\* C5, its case: one trip lists the same stop sequence twice and the indexing of
\* the stop times has raised the integrity error.
C5_Witness ==
    /\ pc = "index_stop_times"
    /\ error = "IntegrityError"
    /\ \E i, j \in 1..Len(stop_times_df) :
          i # j /\ StopTimeKeys(stop_times_df)[i] = StopTimeKeys(stop_times_df)[j]

TripsFtRequired == {TRIPS_COLUMN_ID, TRIPS_COLUMN_VEHICLE_NAME}

VehiclesRequired == {VEHICLES_COLUMN_VEHICLE_NAME}

StopTimesFtRequired == {STOPTIMES_COLUMN_TRIP_ID, STOPTIMES_COLUMN_STOP_ID}

DateTimeOf(x, h, m, sec, us) ==
    [year |-> x[1], month |-> x[2], day |-> x[3],
     hour |-> h, minute |-> m, second |-> sec, microsecond |-> us]

DateTimeLeq(a, b) ==
    LET key(d) == <<d.year, d.month, d.day, d.hour, d.minute, d.second, d.microsecond>>
        RECURSIVE Leq(_, _)
        Leq(u, v) == IF u = <<>> THEN TRUE
                     ELSE IF Head(u) # Head(v) THEN Head(u) < Head(v)
                     ELSE Leq(Tail(u), Tail(v))
    IN  Leq(key(a), key(b))

\* C7: every service period's start date is 00:00:00 on the calendar date
\* (year, month, day) its start string names, and its end date 23:59:59.999999
\* on the date its end string names; so a start string that is not after the
\* end string gives a start date that is not after the end date.
C7_ServiceDatesParsed ==
    Executed("build_service") =>
        /\ error = "none"
        /\ \A i \in 1..Len(service_df) :
              /\ service_df[i].start_date
                    = DateTimeOf(gtfs_schedule.services[i].start_date, 0, 0, 0, 0)
              /\ service_df[i].end_date
                    = DateTimeOf(gtfs_schedule.services[i].end_date, 23, 59, 59, 999999)
              /\ DateStrLeq(service_df[i].start_date_str, service_df[i].end_date_str)
                    => DateTimeLeq(service_df[i].start_date, service_df[i].end_date)

\* C8: a supplemental stop-time table with columns beyond the two join keys is
\* left-joined to the base stop times, and the assembled StopTime table has
\* exactly the (trip identifier, stop sequence) keys of the base records.
C8_StopTimesLeftJoined ==
    /\ (Executed("merge_stop_times") /\ Cardinality(files.stop_times_ft.cols) > 2)
          => (error = "none" /\ "stop_times" \in joins)
    /\ pc = "done" => StopTimeKeys(stop_times_df) = StopTimeKeys(stop_time_dicts)

\* C9: the indexed Trip table has exactly one row for every base trip and no
\* other row; a base trip without a supplemental row has a null vehicle name,
\* one with a supplemental row has that row's vehicle name, and supplemental
\* rows of trips that are not in the base add nothing.
C9_TripTableKeepsBaseTrips ==
    Completed("index_trips") =>
        /\ Len(trips_df) = Len(gtfs_schedule.trips)
        /\ \A i \in 1..Len(gtfs_schedule.trips) :
              Cardinality({k \in 1..Len(trips_df) :
                              trips_df[k].trip_id = gtfs_schedule.trips[i].trip_id}) = 1
        /\ \A k \in 1..Len(trips_df) :
              /\ \E i \in 1..Len(gtfs_schedule.trips) :
                    gtfs_schedule.trips[i].trip_id = trips_df[k].trip_id
              /\ (\A j \in 1..Len(files.trips_ft.rows) :
                     files.trips_ft.rows[j].trip_id # trips_df[k].trip_id)
                    => trips_df[k].vehicle_name = NaN
              /\ \A j \in 1..Len(files.trips_ft.rows) :
                    files.trips_ft.rows[j].trip_id = trips_df[k].trip_id
                       => trips_df[k].vehicle_name = files.trips_ft.rows[j].vehicle_name

\* C9, its case: an assembled schedule with a base trip that has no
\* supplemental row and a supplemental row of a trip that is not in the base.
C9_Witness ==
    /\ pc = "done"
    /\ \E k \in 1..Len(trips_df) :
          /\ trips_df[k].vehicle_name = NaN
          /\ \A j \in 1..Len(files.trips_ft.rows) :
                files.trips_ft.rows[j].trip_id # trips_df[k].trip_id
    /\ \E j \in 1..Len(files.trips_ft.rows) :
          \A i \in 1..Len(gtfs_schedule.trips) :
             gtfs_schedule.trips[i].trip_id # files.trips_ft.rows[j].trip_id

\* C10: in an assembled schedule the stop sequence numbers of every trip are
\* exactly 1..N, N the number of the trip's stop times.
C10_StopSequencesContiguous ==
    pc = "done" =>
        \A t \in TripIds :
           LET rows == {i \in 1..Len(stop_times_df) : stop_times_df[i].trip_id = t}
           IN  {stop_times_df[i].stop_sequence : i \in rows} = 1..Cardinality(rows)

(***************************************************************************)
(* Properties of the lookups on the assembled schedule.                    *)
(***************************************************************************)
\* the positions in the table df of the rows of the trip
TripRowsOf(df, trip_id) == {i \in 1..Len(df) : df[i].trip_id = trip_id}

\* the positions in df of the trip's rows at the stop
StopRowsOf(df, trip_id, stop_id) ==
    {i \in TripRowsOf(df, trip_id) : df[i].stop_id = stop_id}

FirstOf(positions) == CHOOSE i \in positions : \A j \in positions : i <= j

\* the outcome q of a lookup on the table df is the one the table calls for
Answers(q, df) ==
    /\ q.method = "get_scheduled_departure" =>
          LET at == StopRowsOf(df, q.args[1], q.args[2])
          IN  IF at = {}
              THEN q.outcome \in {"KeyError", "Exception"}
              ELSE /\ q.outcome = "returned"
                   /\ q.value = <<df[FirstOf(at)].departure_time>>
    /\ q.method = "number_of_stops" =>
          LET rows == TripRowsOf(df, q.args[1])
          IN  rows # {} => /\ q.outcome = "returned"
                           /\ q.value = <<Cardinality(rows)>>

\* C11: on an assembled schedule, get_scheduled_departure(trip_id, stop_id)
\* returns the departure timestamp of the first row, in table order, of that
\* trip at that stop, and raises when the trip has no row at that stop;
\* number_of_stops(trip_id) is the number of the trip's rows; no lookup changes
\* the stop-time table.
C11_Lookups ==
    [][Running("done") => /\ Answers(query', stop_times_df')
                          /\ stop_times_df' = stop_times_df]_vars

\* a departure was returned for a stop the trip visits twice, at two
\* different departure times
C11_Witness ==
    /\ pc = "done"
    /\ query.method = "get_scheduled_departure"
    /\ query.outcome = "returned"
    /\ \E i, j \in StopRowsOf(stop_times_df, query.args[1], query.args[2]) :
          /\ i < j
          /\ stop_times_df[i].departure_time # stop_times_df[j].departure_time
          /\ query.value = <<stop_times_df[i].departure_time>>

(***************************************************************************)
(* Trip.calculate_dwell_times, lines 301-321.  The table is changed in     *)
(* place: the two intermediate columns are added and dropped again, and    *)
(* dwell_time is written three times, the later writes over the earlier.   *)
(***************************************************************************)
Max(a, b) == IF a >= b THEN a ELSE b

\* the two overrides in the other order
DwellTime_ZeroLast(r) ==
    LET boardsx4  == r.boards * 4
        alightsx2 == r.alights * 2
        flow      == Max(boardsx4, alightsx2) + 4
        tram      == IF r.service_type = 0 THEN 30 ELSE flow
    IN  IF r.boards = 0 /\ r.alights = 0 THEN 0 ELSE tram

DwellTime(r) ==
    LET boardsx4  == r.boards * 4
        alightsx2 == r.alights * 2
        flow      == Max(boardsx4, alightsx2) + 4
        zeroed    == IF r.boards = 0 /\ r.alights = 0 THEN 0 ELSE flow
    IN  IF r.service_type = 0 THEN 30 ELSE zeroed

WithDwellTime(r) ==
    [boards |-> r.boards, alights |-> r.alights, service_type |-> r.service_type,
     dwell_time |-> DwellTime(r)]

AssemblyIdle ==
    /\ pc = "idle"
    /\ error = "none"
    /\ gtfs_schedule = [trips |-> <<>>, services |-> <<>>]
    /\ files = [trips_ft |-> BaseTripsFt, vehicles_ft |-> BaseVehiclesFt,
                stop_times_ft |-> BaseStopTimesFt]
    /\ trips_df = <<>>
    /\ vehicles_df = <<>>
    /\ service_df = <<>>
    /\ stop_time_dicts = <<>>
    /\ stop_times_df = <<>>
    /\ joins = {}
    /\ query = NoQuery

\* service types: 0 tram, streetcar or light rail; 1 subway; 3 bus
ServiceTypes == {0, 1, 3}

DwellRows == [boards : 0..MaxCount, alights : 0..MaxCount, service_type : ServiceTypes]

InitDwell ==
    /\ AssemblyIdle
    /\ \E n \in 1..MaxDwellRows : dw_df \in [1..n -> DwellRows]
    /\ dw_status = "ready"
    /\ hw_df = <<>>
    /\ hw_ret = <<>>
    /\ hw_status = "idle"

CalculateDwellTimes ==
    /\ dw_status = "ready"
    /\ dw_df' = [i \in 1..Len(dw_df) |-> WithDwellTime(dw_df[i])]
    /\ dw_status' = "done"
    /\ UNCHANGED <<asm_vars, query, hw_vars>>

NextDwell == CalculateDwellTimes

SpecDwell == InitDwell /\ [][NextDwell]_vars

\* C1: after calculate_dwell_times every row's dwell_time is 30 when its
\* service type is 0 (tram, streetcar, light rail) whatever its boardings b and
\* alightings a, 0 when the service type is another and b = a = 0, and
\* 4 + max(4*b, 2*a) otherwise.
C1_DwellTime ==
    dw_status = "done" =>
        \A i \in 1..Len(dw_df) :
           LET b == dw_df[i].boards
               a == dw_df[i].alights
           IN  /\ dw_df[i].service_type = 0 => dw_df[i].dwell_time = 30
               /\ (dw_df[i].service_type # 0 /\ b = 0 /\ a = 0)
                     => dw_df[i].dwell_time = 0
               /\ (dw_df[i].service_type # 0 /\ ~(b = 0 /\ a = 0))
                     => dw_df[i].dwell_time
                           = 4 + (IF 4 * b >= 2 * a THEN 4 * b ELSE 2 * a)

\* C1, its case: a tram row without boardings or alightings got 30 and a bus row
\* with 3 boardings and 1 alighting got 16.
C1_Witness ==
    /\ dw_status = "done"
    /\ \E i \in 1..Len(dw_df) :
          /\ dw_df[i].service_type = 0 /\ dw_df[i].boards = 0 /\ dw_df[i].alights = 0
          /\ dw_df[i].dwell_time = 30
    /\ \E i \in 1..Len(dw_df) :
          /\ dw_df[i].service_type = 3 /\ dw_df[i].boards = 3 /\ dw_df[i].alights = 1
          /\ dw_df[i].dwell_time = 16

(***************************************************************************)
(* Trip.calculate_headways, lines 323-347.  Identifiers are numbers, so    *)
(* that groupby's ascending order of the group keys can be stated;         *)
(* depart_time is in whole minutes.                                        *)
(***************************************************************************)
GroupKey(r) == <<r.stop_id, r.routeId, r.direction>>

KeyLess(a, b) ==
    \/ a[1] < b[1]
    \/ a[1] = b[1] /\ a[2] < b[2]
    \/ a[1] = b[1] /\ a[2] = b[2] /\ a[3] < b[3]

\* row a stands before row b in groupby(...).apply(lambda x: x.sort('depart_time')):
\* the groups in ascending key order, each group in ascending departure time
Precedes(a, b) ==
    \/ KeyLess(GroupKey(a), GroupKey(b))
    \/ GroupKey(a) = GroupKey(b) /\ a.depart_time < b.depart_time

\* the row orders the sort may produce; rows of one group departing at the same
\* time come in any order (DataFrame.sort is not stable)
RECURSIVE SortOrders(_, _)
SortOrders(df, S) ==
    IF S = {} THEN {<<>>}
    ELSE UNION { {<<m>> \o rest : rest \in SortOrders(df, S \ {m})} :
                 m \in {i \in S : \A j \in S : ~Precedes(df[j], df[i])} }

\* the row is the first of its group: it differs from the shifted row (the row
\* above it, all missing values for the first row) in a column of the group key,
\* the direction left out of the comparison
IsGroupStart_NoDirection(sg, i) ==
    \/ i = 1
    \/ sg[i].stop_id # sg[i - 1].stop_id
    \/ sg[i].routeId # sg[i - 1].routeId

IsGroupStart(sg, i) ==
    \/ i = 1
    \/ sg[i].stop_id # sg[i - 1].stop_id
    \/ sg[i].routeId # sg[i - 1].routeId
    \/ sg[i].direction # sg[i - 1].direction

\* stop_group_df['headway']: the difference to the shifted row in minutes,
\* then DEFAULT_HEADWAY written over the first row of each group
Headway(sg, i) ==
    IF IsGroupStart(sg, i)
    THEN DEFAULT_HEADWAY
    ELSE sg[i].depart_time - sg[i - 1].depart_time

StopGroupDf(df, order) ==
    [i \in 1..Len(order) |->
        [trip_id  |-> df[order[i]].trip_id,
         stop_id  |-> df[order[i]].stop_id,
         stop_seq |-> df[order[i]].stop_seq,
         headway  |-> Headway([k \in 1..Len(order) |-> df[order[k]]], i)]]

\* pandas.merge(left=trips_df, right=stop_group_df[[...]],
\*              on=['trip_id','stop_id','stop_seq']), an inner join
MergeHeadwayRow(l, right) ==
    LET m == SelectSeq(right, LAMBDA r : /\ r.trip_id = l.trip_id
                                         /\ r.stop_id = l.stop_id
                                         /\ r.stop_seq = l.stop_seq)
    IN  [k \in 1..Len(m) |->
           [stop_id |-> l.stop_id, routeId |-> l.routeId, direction |-> l.direction,
            depart_time |-> l.depart_time, trip_id |-> l.trip_id,
            stop_seq |-> l.stop_seq, headway |-> m[k].headway]]

MergeHeadway(left, right) ==
    Concat([i \in 1..Len(left) |-> MergeHeadwayRow(left[i], right)])

\* the assert left out
RowCountKept_Unasserted(merged, trips_df_len) == TRUE

\* assert(len(trips_df)==trips_df_len)
RowCountKept(merged, trips_df_len) == Len(merged) = trips_df_len

HeadwayGroupKeys == {<<1, 1, 0>>, <<1, 1, 1>>, <<1, 2, 0>>, <<2, 1, 0>>}

DepartTimes == {480, 495, 560}

\* trip identifiers are only compared for equality: the trips of a table are
\* numbered in the order of their first rows
TripNumberings(n) ==
    {f \in [1..n -> 1..n] :
        \A i \in 1..n : f[i] = 1 \/ \E j \in 1..(i - 1) : f[j] >= f[i] - 1}

HeadwayTable(gd, t) ==
    [i \in 1..Len(t) |->
        [stop_id |-> gd[i][1][1], routeId |-> gd[i][1][2], direction |-> gd[i][1][3],
         depart_time |-> gd[i][2], trip_id |-> t[i], stop_seq |-> 1]]

InitHeadway ==
    /\ AssemblyIdle
    /\ dw_df = <<>>
    /\ dw_status = "idle"
    /\ \E n \in 1..MaxRows :
          \E gd \in [1..n -> HeadwayGroupKeys \X DepartTimes], t \in TripNumberings(n) :
             hw_df = HeadwayTable(gd, t)
    /\ hw_ret = <<>>
    /\ hw_status = "ready"

CalculateHeadways ==
    /\ hw_status = "ready"
    /\ \E order \in SortOrders(hw_df, 1..Len(hw_df)) :
          LET merged == MergeHeadway(hw_df, StopGroupDf(hw_df, order))
          IN  IF RowCountKept(merged, Len(hw_df))
              THEN hw_ret' = merged /\ hw_status' = "returned"
              ELSE hw_ret' = <<>> /\ hw_status' = "AssertionError"
    /\ UNCHANGED <<asm_vars, query, dw_vars, hw_df>>

NextHeadway == CalculateHeadways

SpecHeadway == InitHeadway /\ [][NextHeadway]_vars

(***************************************************************************)
(* Properties of calculate_headways.                                       *)
(***************************************************************************)
SameGroup(a, b) ==
    a.stop_id = b.stop_id /\ a.routeId = b.routeId /\ a.direction = b.direction

\* what the first of the rows departing with row i has as headway: the default
\* when no row of the group departs earlier, else the minutes since the latest
\* earlier departure of the group
LeadHeadway(df, i) ==
    LET earlier == {j \in 1..Len(df) :
                       SameGroup(df[j], df[i]) /\ df[j].depart_time < df[i].depart_time}
    IN  IF earlier = {} THEN 60
        ELSE df[i].depart_time
                - (CHOOSE d \in {df[j].depart_time : j \in earlier} :
                      \A j \in earlier : df[j].depart_time <= d)

\* C2: the table calculate_headways returns holds the rows of its argument, in
\* order, each with its headway: within every (stop, route, direction) group,
\* in ascending order of departure, the first row has the default of 60 and
\* every other row the minutes since the departure of the row before it (rows
\* of a group that depart together follow one another, so exactly one of them
\* has the headway of their first and the others 0).
C2_Headways ==
    hw_status = "returned" =>
        /\ Len(hw_ret) = Len(hw_df)
        /\ \A i \in 1..Len(hw_ret) :
              LET tied == {j \in 1..Len(hw_ret) :
                              /\ SameGroup(hw_ret[j], hw_ret[i])
                              /\ hw_ret[j].depart_time = hw_ret[i].depart_time}
              IN  /\ GroupKey(hw_ret[i]) = GroupKey(hw_df[i])
                  /\ hw_ret[i].depart_time = hw_df[i].depart_time
                  /\ hw_ret[i].trip_id = hw_df[i].trip_id
                  /\ hw_ret[i].stop_seq = hw_df[i].stop_seq
                  /\ hw_ret[i].headway \in {LeadHeadway(hw_df, i), 0}
                  /\ Cardinality({j \in tied :
                                     hw_ret[j].headway = LeadHeadway(hw_df, i)}) = 1

\* C2, its case: three rows of one group departing at minutes 480, 495 and 560
\* got the headways 60, 15 and 65.
C2_Witness ==
    /\ hw_status = "returned"
    /\ Len(hw_ret) = 3
    /\ \A i, j \in 1..3 : SameGroup(hw_ret[i], hw_ret[j])
    /\ \E i, j, k \in 1..3 :
          /\ hw_ret[i].depart_time = 480 /\ hw_ret[i].headway = 60
          /\ hw_ret[j].depart_time = 495 /\ hw_ret[j].headway = 15
          /\ hw_ret[k].depart_time = 560 /\ hw_ret[k].headway = 65

\* the rows an inner join of the table with itself on (trip_id, stop_id,
\* stop_seq) has
JoinedRowCount(df) ==
    Cardinality({p \in (1..Len(df)) \X (1..Len(df)) :
                    /\ df[p[1]].trip_id = df[p[2]].trip_id
                    /\ df[p[1]].stop_id = df[p[2]].stop_id
                    /\ df[p[1]].stop_seq = df[p[2]].stop_seq})

\* C3: a table returned by calculate_headways has exactly as many rows as the
\* argument; when the join would have another number of rows, the call ends
\* with the assertion error and returns no table.
C3_RowCountKept ==
    /\ hw_status = "returned" => Len(hw_ret) = Len(hw_df)
    /\ (hw_status # "ready" /\ JoinedRowCount(hw_df) # Len(hw_df))
          => (hw_status = "AssertionError" /\ hw_ret = <<>>)

\* C3, its case: two rows of the argument share (trip_id, stop_id, stop_seq),
\* the join doubles them and the call has ended with the assertion error.
C3_Witness ==
    /\ hw_status = "AssertionError"
    /\ JoinedRowCount(hw_df) > Len(hw_df)

====
